---- MODULE Spec2Model ----
(***************************************************************************)
(* Model of custom_components/kafka_multiple_topics/__init__.py:           *)
(* async_setup, DateTimeJSONEncoder and KafkaManager (start, shutdown,     *)
(* write, _encode_event) on a cooperative, single-threaded event loop.     *)
(* A coroutine runs atomically from one await to the next; the awaits are  *)
(* producer.start() (line 145), producer.stop() (line 149) and             *)
(* producer.send_and_wait() (line 159).  The AIOKafkaProducer and the hub's *)
(* event bus are collaborators: the model records the calls made on them.  *)
(***************************************************************************)
EXTENDS Integers, Sequences, FiniteSets, TLC

\* ------------------------------------------------------------------ bounds
\* longest route table (conf[CONF_TOPICS])
MaxRoutes == 2
\* most write invocations in one behaviour
MaxWrites == 2
\* most start() calls, and most shutdown() calls, in one behaviour
MaxCalls == 2

\* ------------------------------------------------------------------ inputs
Entities == {"light.x"}
TopicNames == {"t1", "t2"}

STATE_UNKNOWN == "unknown"
STATE_UNAVAILABLE == "unavailable"
StateValues == {"on", "", STATE_UNKNOWN, STATE_UNAVAILABLE}

\* an attribute value of a state record: a string, a datetime, or an object
\* json cannot represent (a set, say)
AttrValues ==
    { [type |-> "str", value |-> "home"],
      [type |-> "datetime", value |-> "2024-01-01T00:00:00"],
      [type |-> "object", value |-> "set()"] }

\* homeassistant State records.  _encode_event returns at line 136, before it
\* reads any attribute, for a record in a state it does not publish: such
\* records are drawn with the string attribute only.
StateRecords ==
    { r \in [entity_id : Entities, state : StateValues, attribute : AttrValues] :
        r.state = "on" \/ r.attribute.type = "str" }

\* EVENT_STATE_CHANGED events: event.data["new_state"] is None (<<>>) or a
\* state record (<<state>>)
Events == { [new_state |-> <<>>] } \cup { [new_state |-> <<s>>] : s \in StateRecords }

\* an EntityFilter is a predicate on entity ids: the set of ids it accepts
Filters == SUBSET Entities
Routes == [topic : TopicNames, filter : Filters]
\* the route tables of at most MaxRoutes routes; the two topic names are
\* interchangeable, so the first route is the one named "t1"
RouteTables ==
    { t \in UNION { [1..n -> Routes] : n \in 0..MaxRoutes } :
        t = <<>> \/ t[1].topic = "t1" }

\* ------------------------------------------------------------------ state
VARIABLES
    topics,           \* self._topics: the route table
    entities_filter,  \* self._entities_filter: the global filter
    setup_pc,         \* where async_setup is
    stop_hook,        \* the listen-once hook for EVENT_HOMEASSISTANT_STOP is registered
    stop_fired,       \* the hub has emitted EVENT_HOMEASSISTANT_STOP
    listeners,        \* registrations of self.write for EVENT_STATE_CHANGED
    producer,         \* calls made on self._producer, and those that completed
    writes            \* the write invocations, in the order the bus began them

vars == <<topics, entities_filter, setup_pc, stop_hook, stop_fired, listeners,
          producer, writes>>

\* ------------------------------------------------------------------ encoder
Q == "\""
BS == "\\"

\* the characters of a python str, as a sequence of tokens
Text(s) == IF s = "" THEN <<>> ELSE <<s>>

RECURSIVE Escape(_)
Escape(text) ==
    IF text = <<>> THEN <<>>
    ELSE (IF Head(text) \in {Q, BS} THEN <<BS, Head(text)>> ELSE <<Head(text)>>)
         \o Escape(Tail(text))

\* json's encoding of a python str
json_str(text) == <<Q>> \o Escape(text) \o <<Q>>

Raise(err) == [ok |-> FALSE, err |-> err, text |-> <<>>]
Return(text) == [ok |-> TRUE, err |-> "", text |-> text]

isoformat(o) == Text(o.value)

\* default falling back to a str for whatever is no datetime
default_str(o) ==
    IF o.type = "datetime" THEN Return(isoformat(o))
    ELSE Return(Text(o.value))

\* DateTimeJSONEncoder.default: the str to encode in place of o
default(o) ==
    IF o.type = "datetime" THEN Return(isoformat(o))
    ELSE Raise("TypeError")

\* JSONEncoder.encode, as self._encoder.encode: the JSON text of o
encoder_encode(o) ==
    IF o.type = "str" THEN Return(json_str(Text(o.value)))
    ELSE LET d == default(o) IN
         IF d.ok THEN Return(json_str(d.text)) ELSE d

\* json.dumps of one value with default=self._encoder.encode: a value json
\* cannot represent is replaced by what the hook returns, a str here
dumps_value(v) ==
    IF v.type = "str" THEN Return(json_str(Text(v.value)))
    ELSE LET r == encoder_encode(v) IN
         IF r.ok THEN Return(json_str(r.text)) ELSE r

\* the dict built with the values of entity_id and state exchanged
dumps_swapped(state) ==
    LET a == dumps_value(state.attribute) IN
    IF ~a.ok THEN [kind |-> "raise", err |-> a.err, json |-> <<>>]
    ELSE [kind |-> "bytes", err |-> "",
          json |-> [entity_id |-> json_str(Text(state.state)),
                    state |-> json_str(Text(state.entity_id)),
                    attribute |-> a.text]]

\* json.dumps(state.as_dict(), ...).encode("utf-8"): the JSON text of each field
dumps(state) ==
    LET a == dumps_value(state.attribute) IN
    IF ~a.ok THEN [kind |-> "raise", err |-> a.err, json |-> <<>>]
    ELSE [kind |-> "bytes", err |-> "",
          json |-> [entity_id |-> json_str(Text(state.entity_id)),
                    state |-> json_str(Text(state.state)),
                    attribute |-> a.text]]

None == [kind |-> "none", err |-> "", json |-> <<>>]

\* _encode_event with the two filters combined with OR
encode_event_or(event, topic_entities_filter) ==
    LET new_state == event.new_state IN
    IF \/ new_state = <<>>
       \/ new_state[1].state \in {STATE_UNKNOWN, "", STATE_UNAVAILABLE}
       \/ ~(\/ new_state[1].entity_id \in entities_filter
             \/ new_state[1].entity_id \in topic_entities_filter)
    THEN None
    ELSE dumps(new_state[1])

\* _encode_event with STATE_UNAVAILABLE left out of the states it skips
encode_event_unavailable(event, topic_entities_filter) ==
    LET new_state == event.new_state IN
    IF \/ new_state = <<>>
       \/ new_state[1].state \in {STATE_UNKNOWN, ""}
       \/ ~(new_state[1].entity_id \in entities_filter)
       \/ ~(new_state[1].entity_id \in topic_entities_filter)
    THEN None
    ELSE dumps(new_state[1])

\* KafkaManager._encode_event
encode_event(event, topic_entities_filter) ==
    LET new_state == event.new_state IN
    IF \/ new_state = <<>>
       \/ new_state[1].state \in {STATE_UNKNOWN, "", STATE_UNAVAILABLE}
       \/ ~(new_state[1].entity_id \in entities_filter)
       \/ ~(new_state[1].entity_id \in topic_entities_filter)
    THEN None
    ELSE dumps(new_state[1])

\* ------------------------------------------------------------------ write
\* KafkaManager.write from route i on: the loop runs until it suspends in
\* send_and_wait, raises, or runs off the table.  sent is what the invocation
\* has passed to send_and_wait so far; the result is its new position.
RECURSIVE write_from(_, _, _)

\* write with the loop left (break) at the first route that is skipped
write_from_break(event, i, sent) ==
    IF i > Len(topics) THEN [pc |-> "done", idx |-> i, err |-> "", sent |-> sent]
    ELSE LET payload == encode_event(event, topics[i].filter) IN
         IF payload.kind = "raise"
         THEN [pc |-> "raised", idx |-> i, err |-> payload.err, sent |-> sent]
         ELSE IF payload.kind = "bytes"
         THEN [pc |-> "await", idx |-> i, err |-> "",
               sent |-> Append(sent, [route |-> i, topic |-> topics[i].topic,
                                      payload |-> payload.json,
                                      status |-> "inflight"])]
         ELSE [pc |-> "done", idx |-> Len(topics) + 1, err |-> "", sent |-> sent]

\* write with send in place of send_and_wait, not awaited: every send is
\* issued without waiting for the one before
RECURSIVE write_from_fanout(_, _, _)
write_from_fanout(event, i, sent) ==
    IF i > Len(topics) THEN [pc |-> "done", idx |-> i, err |-> "", sent |-> sent]
    ELSE LET payload == encode_event(event, topics[i].filter) IN
         IF payload.kind = "raise"
         THEN [pc |-> "raised", idx |-> i, err |-> payload.err, sent |-> sent]
         ELSE IF payload.kind = "bytes"
         THEN write_from_fanout(event, i + 1,
                  Append(sent, [route |-> i, topic |-> topics[i].topic,
                                payload |-> payload.json, status |-> "inflight"]))
         ELSE write_from_fanout(event, i + 1, sent)

\* write that sends to a topic name once only: a route is passed over when
\* the invocation has already sent to a route of the same name
RECURSIVE write_from_dedup(_, _, _)
write_from_dedup(event, i, sent) ==
    IF i > Len(topics) THEN [pc |-> "done", idx |-> i, err |-> "", sent |-> sent]
    ELSE LET payload == encode_event(event, topics[i].filter) IN
         IF \E k \in 1..Len(sent) : sent[k].topic = topics[i].topic
         THEN write_from_dedup(event, i + 1, sent)
         ELSE IF payload.kind = "raise"
         THEN [pc |-> "raised", idx |-> i, err |-> payload.err, sent |-> sent]
         ELSE IF payload.kind = "bytes"
         THEN [pc |-> "await", idx |-> i, err |-> "",
               sent |-> Append(sent, [route |-> i, topic |-> topics[i].topic,
                                      payload |-> payload.json,
                                      status |-> "inflight"])]
         ELSE write_from_dedup(event, i + 1, sent)

write_from(event, i, sent) ==
    IF i > Len(topics) THEN [pc |-> "done", idx |-> i, err |-> "", sent |-> sent]
    ELSE LET topic == topics[i].topic
             topic_entities_filter == topics[i].filter
             payload == encode_event(event, topic_entities_filter)
         IN  IF payload.kind = "raise"
             THEN [pc |-> "raised", idx |-> i, err |-> payload.err, sent |-> sent]
             ELSE IF payload.kind = "bytes"
             THEN [pc |-> "await", idx |-> i, err |-> "",
                   sent |-> Append(sent, [route |-> i, topic |-> topic,
                                          payload |-> payload.json,
                                          status |-> "inflight"])]
             ELSE write_from(event, i + 1, sent)

\* write(event) is called: it runs from the first route
write(event) == write_from(event, 1, <<>>)

\* write that, its send acknowledged, goes on waiting for something else (a
\* lock another invocation holds, say)
send_acked_stuck(event, i, sent) == [pc |-> "await", idx |-> i, err |-> "", sent |-> sent]

\* the send for route i was acknowledged: the invocation awaiting it goes on
\* with the next route
send_acked(event, i, sent) == write_from(event, i + 1, sent)

\* write with the failure of a send caught and the loop continued
send_raised_absorbed(event, i, sent) == write_from(event, i + 1, sent)

\* the send for route i failed: send_and_wait raises in the invocation
\* awaiting it, and nothing in write catches it
send_raised(event, i, sent) ==
    [pc |-> "raised", idx |-> i, err |-> "KafkaError", sent |-> sent]

\* some invocation of ws has raised
Raised(ws) == \E w \in 1..Len(ws) : ws[w].pc = "raised"

\* a manager that stops publishing once a write has raised
RECURSIVE dispatch_dropping(_, _, _, _)
dispatch_dropping(n, ev, event, ws) ==
    IF n = 0 THEN ws
    ELSE LET r == IF Raised(ws)
                  THEN [pc |-> "done", idx |-> 1, err |-> "", sent |-> <<>>]
                  ELSE write(event)
         IN  dispatch_dropping(n - 1, ev, event,
                  Append(ws, [ev |-> ev, event |-> event, after_raise |-> Raised(ws),
                              pc |-> r.pc, idx |-> r.idx, err |-> r.err,
                              sent |-> r.sent]))

\* the bus calls each of the n registered listeners with the event: n
\* invocations of write begin, one after the other, each running to its first
\* suspension.  ev numbers the event; after_raise records whether an earlier
\* invocation had raised when this one began.
RECURSIVE dispatch(_, _, _, _)
dispatch(n, ev, event, ws) ==
    IF n = 0 THEN ws
    ELSE LET r == write(event) IN
         dispatch(n - 1, ev, event,
                  Append(ws, [ev |-> ev, event |-> event, after_raise |-> Raised(ws),
                              pc |-> r.pc, idx |-> r.idx, err |-> r.err,
                              sent |-> r.sent]))

NextEv == IF writes = <<>> THEN 1 ELSE writes[Len(writes)].ev + 1

\* the send_and_wait calls made on the producer by the invocations ws
RECURSIVE SendCalls(_)
SendCalls(ws) == IF ws = <<>> THEN 0 ELSE Len(Head(ws).sent) + SendCalls(Tail(ws))

\* ------------------------------------------------------------------ lifecycle
\* KafkaManager.start up to its await: register write, call producer.start()
start_call ==
    /\ listeners' = listeners + 1
    /\ producer' = [producer EXCEPT !.start_calls = @ + 1]

\* KafkaManager.shutdown up to its await: call producer.stop()
shutdown_call ==
    /\ producer' = [producer EXCEPT !.stop_calls = @ + 1]

Init ==
    /\ topics \in RouteTables
    /\ entities_filter \in Filters
    /\ setup_pc = "listen_once"
    /\ stop_hook = FALSE
    /\ stop_fired = FALSE
    /\ listeners = 0
    /\ producer = [start_calls |-> 0, started |-> 0, send_calls |-> 0,
                   stop_calls |-> 0, stopped |-> 0]
    /\ writes = <<>>

\* async_setup without line 77 ahead of start(): no stop hook is registered
\* by the time write is
SetupListenOnce_skipped ==
    /\ setup_pc = "listen_once"
    /\ setup_pc' = "start"
    /\ UNCHANGED <<topics, entities_filter, stop_hook, stop_fired, listeners, producer, writes>>

\* async_setup, line 77
SetupListenOnce ==
    /\ setup_pc = "listen_once"
    /\ stop_hook' = TRUE
    /\ setup_pc' = "start"
    /\ UNCHANGED <<topics, entities_filter, stop_fired, listeners, producer, writes>>

\* async_setup, line 79: kafka.start() runs to its await
SetupStart ==
    /\ setup_pc = "start"
    /\ start_call
    /\ setup_pc' = "await_start"
    /\ UNCHANGED <<topics, entities_filter, stop_hook, stop_fired, writes>>

\* no coroutine is suspended before async_setup reaches its first await, so
\* the hub delivers nothing until then
Running == setup_pc \in {"await_start", "return"}

\* a producer.start() completes and the start() awaiting it returns
ProducerStarted ==
    /\ producer.started < producer.start_calls
    /\ producer' = [producer EXCEPT !.started = @ + 1]
    /\ setup_pc' = IF setup_pc = "await_start" THEN "return" ELSE setup_pc
    /\ UNCHANGED <<topics, entities_filter, stop_hook, stop_fired, listeners, writes>>

\* the hub emits EVENT_HOMEASSISTANT_STOP, once: a listen-once hook is removed
\* and called
StopEvent ==
    /\ Running
    /\ ~stop_fired
    /\ stop_fired' = TRUE
    /\ IF stop_hook
       THEN /\ stop_hook' = FALSE
            /\ shutdown_call
       ELSE UNCHANGED <<stop_hook, producer>>
    /\ UNCHANGED <<topics, entities_filter, setup_pc, listeners, writes>>

\* a producer.stop() completes and the shutdown() awaiting it returns
ProducerStopped ==
    /\ producer.stopped < producer.stop_calls
    /\ producer' = [producer EXCEPT !.stopped = @ + 1]
    /\ UNCHANGED <<topics, entities_filter, setup_pc, stop_hook, stop_fired, listeners, writes>>

\* write that consumes self._topics as it goes over it
StateChanged_consuming(event) ==
    /\ Running
    /\ listeners > 0
    /\ Len(writes) + listeners <= MaxWrites
    /\ writes' = dispatch(listeners, NextEv, event, writes)
    /\ producer' = [producer EXCEPT !.send_calls = SendCalls(writes')]
    /\ topics' = <<>>
    /\ UNCHANGED <<entities_filter, setup_pc, stop_hook, stop_fired, listeners>>

\* the hub emits an EVENT_STATE_CHANGED event
StateChanged(event) ==
    /\ Running
    /\ listeners > 0
    /\ Len(writes) + listeners <= MaxWrites
    /\ writes' = dispatch(listeners, NextEv, event, writes)
    /\ producer' = [producer EXCEPT !.send_calls = SendCalls(writes')]
    /\ UNCHANGED <<topics, entities_filter, setup_pc, stop_hook, stop_fired, listeners>>

\* the sends of invocation w once its send k has completed with the status
Settled(w, k, status) == [writes[w].sent EXCEPT ![k].status = status]

\* invocation w is suspended in its send k
AwaitingSend(w, k) ==
    /\ writes[w].pc = "await"
    /\ writes[w].idx = writes[w].sent[k].route

\* invocation w not resumed: only its sends change
Suspended(w, sent) ==
    [pc |-> writes[w].pc, idx |-> writes[w].idx, err |-> writes[w].err, sent |-> sent]

\* invocation w moves to position r
Resume(w, r) ==
    /\ writes' = [writes EXCEPT ![w].pc = r.pc, ![w].idx = r.idx,
                                ![w].err = r.err, ![w].sent = r.sent]
    /\ producer' = [producer EXCEPT !.send_calls = SendCalls(writes')]

\* the broker acknowledges send k of invocation w
SendAcked(w, k) ==
    /\ writes[w].sent[k].status = "inflight"
    /\ LET sent == Settled(w, k, "acked") IN
       Resume(w, IF AwaitingSend(w, k)
                 THEN send_acked(writes[w].event, writes[w].idx, sent)
                 ELSE Suspended(w, sent))
    /\ UNCHANGED <<topics, entities_filter, setup_pc, stop_hook, stop_fired, listeners>>

\* send k of invocation w fails
SendFailed(w, k) ==
    /\ writes[w].sent[k].status = "inflight"
    /\ LET sent == Settled(w, k, "failed") IN
       Resume(w, IF AwaitingSend(w, k)
                 THEN send_raised(writes[w].event, writes[w].idx, sent)
                 ELSE Suspended(w, sent))
    /\ UNCHANGED <<topics, entities_filter, setup_pc, stop_hook, stop_fired, listeners>>

\* some other caller, holding hass.data[DOMAIN], calls start() again on the
\* started manager
StartAgain ==
    /\ producer.started > 0
    /\ producer.start_calls < MaxCalls
    /\ start_call
    /\ UNCHANGED <<topics, entities_filter, setup_pc, stop_hook, stop_fired, writes>>

\* some caller calls shutdown(event) directly on the started manager
ShutdownCalled ==
    /\ producer.started > 0
    /\ producer.stop_calls < MaxCalls
    /\ shutdown_call
    /\ UNCHANGED <<topics, entities_filter, setup_pc, stop_hook, stop_fired, listeners, writes>>

\* the integration as the hub runs it
Next ==
    \/ SetupListenOnce
    \/ SetupStart
    \/ ProducerStarted
    \/ StopEvent
    \/ ProducerStopped
    \/ \E event \in Events : StateChanged(event)
    \/ \E w \in 1..Len(writes) : \E k \in 1..Len(writes[w].sent) : SendAcked(w, k)
    \/ \E w \in 1..Len(writes) : \E k \in 1..Len(writes[w].sent) : SendFailed(w, k)

Spec == Init /\ [][Next]_vars

\* the manager under any caller of its public methods
NextApi ==
    \/ Next
    \/ StartAgain
    \/ ShutdownCalled

SpecApi == Init /\ [][NextApi]_vars

\* ------------------------------------------------------------------ claims
Publishable(event) ==
    /\ event.new_state # <<>>
    /\ event.new_state[1].state \notin {"", "unknown", "unavailable"}

GloballyAccepted(event) ==
    /\ event.new_state # <<>>
    /\ event.new_state[1].entity_id \in entities_filter

\* route i qualifies for the event: it passes the skip checks and both filters
Qualifies(event, i) ==
    /\ Publishable(event)
    /\ GloballyAccepted(event)
    /\ event.new_state[1].entity_id \in topics[i].filter

\* the qualifying routes, in table order
QualifyingRoutes(event) ==
    SelectSeq([i \in 1..Len(topics) |-> i], LAMBDA i : Qualifies(event, i))

\* the routes invocation w has sent to, in the order of its sends
RoutesSent(w) == [k \in 1..Len(writes[w].sent) |-> writes[w].sent[k].route]

IsPrefix(s, t) == Len(s) <= Len(t) /\ \A k \in 1..Len(s) : s[k] = t[k]

Invocations == 1..Len(writes)

\* C1: a write invocation that has returned, every send acknowledged, has
\* issued one send per qualifying route and none for any other route, in
\* route-table order, each to the topic of its route.
C1_SendsAreQualifyingRoutesInOrder ==
    \A w \in Invocations :
        writes[w].pc = "done" =>
            /\ RoutesSent(w) = QualifyingRoutes(writes[w].event)
            /\ \A k \in 1..Len(writes[w].sent) :
                  /\ writes[w].sent[k].status = "acked"
                  /\ writes[w].sent[k].topic = topics[writes[w].sent[k].route].topic

\* a returned invocation that skipped the first route and sent to a later one
C1_Witness ==
    \E w \in Invocations :
        /\ writes[w].pc = "done"
        /\ Len(topics) >= 2
        /\ ~Qualifies(writes[w].event, 1)
        /\ RoutesSent(w) = <<2>>

\* C2: for an event whose entity id the global filter rejects, _encode_event
\* returns None for every route and write issues no send, whatever the routes'
\* own filters accept.
C2_GlobalFilterIsAnded ==
    \A w \in Invocations :
        LET event == writes[w].event IN
        (event.new_state # <<>> /\ ~GloballyAccepted(event)) =>
            /\ writes[w].sent = <<>>
            /\ writes[w].pc = "done"
            /\ \A i \in 1..Len(topics) :
                  encode_event(event, topics[i].filter).kind = "none"

\* an event in a published state, rejected by the global filter and accepted
\* by a route's filter, was written
C2_Witness ==
    \E w \in Invocations : \E i \in 1..Len(topics) :
        /\ Publishable(writes[w].event)
        /\ ~GloballyAccepted(writes[w].event)
        /\ writes[w].event.new_state[1].entity_id \in topics[i].filter
        /\ writes[w].pc = "done"

\* C3: for an event with no new state, or in the state "", "unknown" or
\* "unavailable", write issues no send, whatever the filters accept.
C3_UnpublishableStatesSendNothing ==
    \A w \in Invocations :
        LET event == writes[w].event IN
        (\/ event.new_state = <<>>
         \/ event.new_state[1].state \in {"", "unknown", "unavailable"}) =>
            /\ writes[w].sent = <<>>
            /\ writes[w].pc = "done"

\* an "unavailable" event that both filters of a route accept, and an event
\* with no new state, were written
C3_Witness ==
    /\ \E w \in Invocations : \E i \in 1..Len(topics) :
          /\ writes[w].event.new_state # <<>>
          /\ writes[w].event.new_state[1].state = "unavailable"
          /\ GloballyAccepted(writes[w].event)
          /\ writes[w].event.new_state[1].entity_id \in topics[i].filter
          /\ writes[w].pc = "done"
    /\ \E w \in Invocations : writes[w].event.new_state = <<>>

\* C4: a write invocation has at most one send in flight, and every send it
\* issued before its latest one has been acknowledged.
C4_OneSendInFlight ==
    \A w \in Invocations :
        /\ Cardinality({k \in 1..Len(writes[w].sent) :
                          writes[w].sent[k].status = "inflight"}) <= 1
        /\ \A k \in 1..(Len(writes[w].sent) - 1) : writes[w].sent[k].status = "acked"

\* an invocation whose first send was acknowledged and whose second is in flight
C4_Witness ==
    \E w \in Invocations :
        /\ Len(writes[w].sent) >= 2
        /\ writes[w].sent[1].status = "acked"
        /\ writes[w].sent[2].status = "inflight"
        /\ writes[w].pc = "await"

\* C5: a failed send ends its write invocation with the failure raised: it is
\* the invocation's last send, its route was sent to once, and the sends before
\* it stay acknowledged.
C5_FailedSendPropagates ==
    \A w \in Invocations : \A k \in 1..Len(writes[w].sent) :
        writes[w].sent[k].status = "failed" =>
            /\ writes[w].pc = "raised"
            /\ writes[w].err = "KafkaError"
            /\ writes[w].idx = writes[w].sent[k].route
            /\ k = Len(writes[w].sent)
            /\ \A j \in 1..(k - 1) :
                  /\ writes[w].sent[j].status = "acked"
                  /\ writes[w].sent[j].route < writes[w].sent[k].route

\* one invocation failed on its first route with a later route qualifying, and
\* one failed after an acknowledged send
C5_Witness ==
    /\ \E w \in Invocations :
          /\ writes[w].pc = "raised"
          /\ Len(writes[w].sent) = 1
          /\ writes[w].sent[1].status = "failed"
          /\ writes[w].sent[1].route = 1
          /\ Len(topics) >= 2
          /\ Qualifies(writes[w].event, 2)
    /\ \E w \in Invocations :
          /\ Len(writes[w].sent) = 2
          /\ writes[w].sent[1].status = "acked"
          /\ writes[w].sent[2].status = "failed"

\* C6: a write invocation begun after another has raised starts at the first
\* route and sends to the routes its event qualifies for, in order: to all of
\* them once it has returned.
C6_WriteAfterFailureIsIndependent ==
    \A w \in Invocations :
        writes[w].after_raise =>
            LET q == QualifyingRoutes(writes[w].event) IN
            /\ IsPrefix(RoutesSent(w), q)
            /\ (q # <<>> /\ writes[w].err # "TypeError") => writes[w].sent # <<>>
            /\ writes[w].pc = "done" => RoutesSent(w) = q
            /\ writes[w].pc = "await" => writes[w].idx = q[Len(writes[w].sent)]

\* a send of the first invocation failed, and the invocation begun after that
\* has returned with a send made
C6_Witness ==
    \E w1 \in Invocations : \E w2 \in Invocations :
        /\ w1 < w2
        /\ writes[w1].pc = "raised"
        /\ writes[w1].err = "KafkaError"
        /\ writes[w2].after_raise
        /\ writes[w2].pc = "done"
        /\ writes[w2].sent # <<>>

\* C7: no send is issued on the producer before a producer.start() has
\* completed.
C7_NoSendBeforeStarted ==
    producer.send_calls > 0 => producer.started > 0

\* C8: on a manager whose start has completed, a shutdown call that follows
\* another one does not invoke producer.stop() again.  (While the hub's stop
\* event has not fired, every producer.stop() so far was invoked by a shutdown
\* call made after start completed.)
C8_StopInvokedOnce ==
    [][(~stop_fired' /\ producer.stop_calls > 0)
         => producer'.stop_calls = producer.stop_calls]_vars

\* C9: a second start() registers no second listener and does not start the
\* producer again, so no event begins two write invocations.
C9_SecondStartRejected ==
    /\ listeners <= 1
    /\ producer.start_calls <= 1
    /\ \A w1 \in Invocations : \A w2 \in Invocations :
          writes[w1].ev = writes[w2].ev => w1 = w2

\* C10: once shutdown has stopped the started producer, the producer is not
\* used again: no send is issued on it, by an event emitted after shutdown or
\* otherwise.
C10_NoSendAfterStopped ==
    [][(producer.started > 0 /\ producer.stopped > 0)
         => producer'.send_calls = producer.send_calls]_vars

\* json.loads of the JSON text of a string: the quotes are dropped and the
\* escapes undone
RECURSIVE Unescape(_)
Unescape(text) ==
    IF text = <<>> THEN <<>>
    ELSE IF Head(text) = BS /\ Len(text) >= 2
         THEN <<text[2]>> \o Unescape(Tail(Tail(text)))
         ELSE <<Head(text)>> \o Unescape(Tail(text))

json_loads_str(text) == Unescape(SubSeq(text, 2, Len(text) - 1))

\* invocation w has issued a send for route i
SentTo(w, i) == \E k \in 1..Len(writes[w].sent) : writes[w].sent[k].route = i

\* C11: for two events delivered one after the other and a route both qualify
\* for, the send of the later event to that route is not issued before the
\* send of the earlier one (unless the earlier invocation has raised and so
\* sends no more).
C11_PerDestinationOrder ==
    \A w1 \in Invocations : \A w2 \in Invocations :
        writes[w1].ev < writes[w2].ev =>
            \A i \in 1..Len(topics) :
                (/\ Qualifies(writes[w1].event, i)
                 /\ Qualifies(writes[w2].event, i)
                 /\ SentTo(w2, i)
                 /\ writes[w1].pc # "raised") => SentTo(w1, i)

\* C12: the datetime attribute of a published record JSON-decodes to the
\* text isoformat gives, with nothing around it.
C12_DatetimeRoundTrip ==
    \A w \in Invocations : \A k \in 1..Len(writes[w].sent) :
        LET attribute == writes[w].event.new_state[1].attribute IN
        attribute.type = "datetime" =>
            json_loads_str(writes[w].sent[k].payload.attribute) = isoformat(attribute)

\* C13: every send of an invocation carries the record of the invocation's own
\* event: its entity id and state decode from the payload, all sends of the
\* invocation carry the same payload, and two sends carry the same payload
\* only for the same event.
C13_PayloadIsOwnRecord ==
    \A w \in Invocations : \A k \in 1..Len(writes[w].sent) :
        LET state == writes[w].event.new_state[1]
            payload == writes[w].sent[k].payload
        IN  /\ json_loads_str(payload.entity_id) = Text(state.entity_id)
            /\ json_loads_str(payload.state) = Text(state.state)
            /\ payload = writes[w].sent[1].payload
            /\ \A w2 \in Invocations : \A k2 \in 1..Len(writes[w2].sent) :
                  (writes[w2].sent[k2].payload = payload)
                      <=> (writes[w2].event = writes[w].event)

\* two invocations for different events overlap, each with a send in flight,
\* and one of them is at its second send
C13_Witness ==
    \E w1 \in Invocations : \E w2 \in Invocations :
        /\ writes[w1].event # writes[w2].event
        /\ writes[w1].pc = "await"
        /\ writes[w2].pc = "await"
        /\ Len(writes[w1].sent) = 2

\* C14: producer.stop() is invoked only once a producer.start() has completed,
\* and producer.start() is not invoked once producer.stop() has been.
C14_LifecycleOrder ==
    [][/\ producer'.stop_calls > producer.stop_calls => producer.started > 0
       /\ producer'.start_calls > producer.start_calls => producer.stop_calls = 0]_vars

\* the routes named t that the event qualifies for
QualifyingNamed(event, t) ==
    { i \in 1..Len(topics) : topics[i].topic = t /\ Qualifies(event, i) }

\* the sends of invocation w to the topic named t
SendsNamed(w, t) == { k \in 1..Len(writes[w].sent) : writes[w].sent[k].topic = t }

\* C15: a returned invocation has sent to each topic name once for every
\* route of that name its event qualifies for, whatever the other routes of
\* the name accept.
C15_DuplicateNamesAreIndependent ==
    \A w \in Invocations :
        writes[w].pc = "done" =>
            \A t \in TopicNames :
                Cardinality(SendsNamed(w, t))
                    = Cardinality(QualifyingNamed(writes[w].event, t))

\* a table that names one topic twice, and a returned invocation that sent to
\* it twice
C15_Witness ==
    /\ Len(topics) >= 2
    /\ topics[1].topic = topics[2].topic
    /\ \E w \in Invocations :
          /\ writes[w].pc = "done"
          /\ Cardinality(SendsNamed(w, topics[1].topic)) = 2

\* C16: an invocation whose event qualifies for a route and carries an
\* attribute json cannot represent raises the TypeError of the encoder and
\* has sent nothing: not to that route, and not to a later one.
C16_EncodingErrorSurfaces ==
    \A w \in Invocations :
        LET event == writes[w].event IN
        (/\ QualifyingRoutes(event) # <<>>
         /\ event.new_state[1].attribute.type = "object") =>
            /\ writes[w].pc = "raised"
            /\ writes[w].err = "TypeError"
            /\ writes[w].idx = Head(QualifyingRoutes(event))
            /\ writes[w].sent = <<>>

\* an event with such an attribute, qualifying for two routes, was written
C16_Witness ==
    \E w \in Invocations :
        /\ writes[w].event.new_state # <<>>
        /\ writes[w].event.new_state[1].attribute.type = "object"
        /\ Len(QualifyingRoutes(writes[w].event)) = 2
        /\ writes[w].pc = "raised"

\* C17: no step changes the route table or the global filter, and a step in
\* which write only evaluates _encode_event (every route skipped) changes
\* nothing of the manager and calls nothing on the producer.
C17_RoutesAndFiltersAreFixed ==
    [][/\ topics' = topics
       /\ entities_filter' = entities_filter
       /\ (Len(writes') > Len(writes) /\ SendCalls(writes') = SendCalls(writes))
            => /\ producer' = producer
               /\ listeners' = listeners
               /\ stop_hook' = stop_hook]_vars

\* start, write and shutdown have all run on a table of two routes: a returned
\* invocation sent to both, one skipped both, and the producer is stopped
C17_Witness ==
    /\ Len(topics) = 2
    /\ producer.started > 0
    /\ producer.stopped > 0
    /\ \E w \in Invocations : writes[w].pc = "done" /\ Len(writes[w].sent) = 2
    /\ \E w \in Invocations : writes[w].pc = "done" /\ writes[w].sent = <<>>

\* invocation w has returned or raised
Finished(w) == w <= Len(writes) /\ writes[w].pc \in {"done", "raised"}

\* C18: a write invocation that has neither returned nor raised is suspended
\* in its own latest send, which is in flight, so the answer to that send is
\* all it waits for; every answer to it ends the invocation or moves it to a
\* later route, and it issues at most one send per route: with every send
\* answered it ends after at most Len(topics) sends.
C18_WriteTerminates ==
    /\ [](\A w \in Invocations :
             /\ Len(writes[w].sent) <= Len(topics)
             /\ ~Finished(w) =>
                   /\ writes[w].sent # <<>>
                   /\ AwaitingSend(w, Len(writes[w].sent))
                   /\ writes[w].sent[Len(writes[w].sent)].status = "inflight"
                   /\ writes[w].idx <= Len(topics))
    /\ [][\A w \in Invocations :
             (~Finished(w) /\ writes'[w] # writes[w]) =>
                 \/ writes'[w].pc \in {"done", "raised"}
                 \/ writes'[w].idx > writes[w].idx]_vars

\* an invocation returned after as many sends as the table has routes, while
\* another invocation was still suspended
C18_Witness ==
    \E w1 \in Invocations : \E w2 \in Invocations :
        /\ writes[w1].pc = "await"
        /\ writes[w2].pc = "done"
        /\ Len(topics) = 2
        /\ Len(writes[w2].sent) = Len(topics)

\* C19: while write is registered and the hub's stop event has not fired,
\* the stop hook is registered; the hook is gone once the event has fired,
\* and shutdown has then invoked producer.stop() once and no more.
C19_StopHookCoversListener ==
    /\ (listeners > 0 /\ ~stop_fired) => stop_hook
    /\ stop_fired => ~stop_hook
    /\ producer.stop_calls = (IF stop_fired THEN 1 ELSE 0)

\* the stop event fired on the registered hook, which called shutdown
C19_Witness ==
    /\ listeners > 0
    /\ stop_fired
    /\ producer.stop_calls = 1

====
